---- MODULE Spec2Model ----
(***************************************************************************)
(* Model of AI Study Pal: the study-plan scheduler                         *)
(* (src/study_plan_generator.py), the quiz generator (src/ml_models.py),   *)
(* the summarizer (src/dl_models.py), the tips generator                   *)
(* (src/nlp_processor.py) and the web application (src/app.py).            *)
(*                                                                         *)
(* Specifications.  Spec: the plan generator called as a library.          *)
(* ExportSpec: a plan is generated and exported to a file.                 *)
(* QuizSpec: the quiz generator called as a library.  TextSpec: the        *)
(* summarizer and the tips generator called as libraries.  RouteSpec: the  *)
(* application serving one request at a time.  ConcSpec: the application   *)
(* serving generate-plan requests on concurrent threads.  DownSpec: the    *)
(* application serving download-plan requests on concurrent threads.       *)
(* HoldSpec: a caller that keeps the plans it was returned.  ShareSpec:    *)
(* the plan generator called with fractional per-day shares.               *)
(*                                                                         *)
(* Numbers.  A Python float is modelled by the exact rational it stands    *)
(* for, a record [num, den] with den > 0.  int() truncates toward zero and *)
(* round(x, 1) rounds the double nearest to the rational to one decimal.   *)
(*                                                                         *)
(* Dates.  A datetime is [ord, tick]: the proleptic Gregorian ordinal of   *)
(* the day (datetime.toordinal) and the time of day in ticks.  strftime    *)
(* ('%Y-%m-%d') drops the time of day and formats the civil date.          *)
(***************************************************************************)
EXTENDS Integers, Sequences, FiniteSets, TLC

VARIABLES clock, generator, call, result, app, threads, inits, heap, files

vars == <<clock, generator, call, result, app, threads, inits, heap, files>>

\* the plan objects a caller holds and the files of the working directory
ioVars == <<heap, files>>

\* the state of the web application: its module-level singletons, the
\* requests being served and the number of times each singleton was built
appVars == <<app, threads, inits>>

(***************************************************************************)
(* Bounds of the model.                                                    *)
(***************************************************************************)
MaxDays == 7
MaxNegDays == 1
MaxHours == 10
MaxNegHours == 3
MaxSlotHours == 16
MaxSlotDen == 2
TicksPerDay == 2
MaxAdvance == 1
MaxClockDays == 1
MaxQuestions == 10
MaxSeed == 7
MaxClassifier == 15
MaxSentences == 11
MaxTips == 7
MaxRequests == 2
MaxHeld == 2

(***************************************************************************)
(* Optional arguments: None is the empty tuple, a given value v is <<v>>.  *)
(***************************************************************************)
None == << >>

Some(v) == << v >>

(***************************************************************************)
(* Floats as exact rationals.                                              *)
(***************************************************************************)
Float(n, d) == IF d < 0 THEN [num |-> -n, den |-> -d] ELSE [num |-> n, den |-> d]

\* hours / days (true division of two ints); the caller excludes days = 0.
TrueDiv(hours, days) == Float(hours, days)

\* int(x): truncation toward zero.
IntOf(x) ==
    IF x.num >= 0 THEN x.num \div x.den ELSE -((-x.num) \div x.den)

RECURSIVE ScaleDen(_, _)
ScaleDen(a, b) == IF a >= 2 * b THEN ScaleDen(a, 2 * b) ELSE b

RECURSIVE ScaleNum(_, _)
ScaleNum(a, b) == IF a < b THEN ScaleNum(2 * a, b) ELSE a

\* 2^52 modulo b, by repeated squaring (b < 2^15)
Pow2_52Mod(b) ==
    LET p1 == 2 % b
        p2 == (p1 * p1) % b
        p4 == (p2 * p2) % b
        p8 == (p4 * p4) % b
        p16 == (p8 * p8) % b
        p32 == (p16 * p16) % b
    IN  (((p32 * p16) % b) * p4) % b

\* what is left of rem/b after 52 more binary digits of the quotient
MantissaRem(rem, b) == (rem * Pow2_52Mod(b)) % b

\* TRUE iff the double nearest to a/b (a, b > 0, a/b not a dyadic rational)
\* is greater than a/b: the 53-bit significand was rounded up.
DoubleIsAbove(a, b) ==
    LET bb == ScaleDen(a, b)
        aa == ScaleNum(a, bb)
        rem == MantissaRem(aa - bb, bb)
    IN  2 * rem > bb

\* RoundTenthsNonNeg cutting the digits after the first decimal
RoundTenthsNonNeg_Truncate(n, d) == (10 * n) \div d

\* round(x, 1) for x >= 0, in tenths.  The double is rounded correctly to
\* one decimal; an exact tie (only when x is a multiple of 1/4) goes to even.
RoundTenthsNonNeg(n, d) ==
    LET q == (10 * n) \div d
        r == (10 * n) % d
    IN  IF 2 * r < d THEN q
        ELSE IF 2 * r > d THEN q + 1
        ELSE IF (2 * q + 1) % 5 = 0
             THEN (IF q % 2 = 0 THEN q ELSE q + 1)
             ELSE (IF DoubleIsAbove(2 * q + 1, 20) THEN q + 1 ELSE q)

\* round(x, 1): a float with one decimal.
Round1(x) ==
    IF x.num >= 0
    THEN Float(RoundTenthsNonNeg(x.num, x.den), 10)
    ELSE Float(-RoundTenthsNonNeg(-x.num, x.den), 10)

(***************************************************************************)
(* Dates: datetime.now(), timedelta(days=n), strftime('%Y-%m-%d').         *)
(***************************************************************************)
IsLeap(y) == y % 4 = 0 /\ (y % 100 # 0 \/ y % 400 = 0)

DaysInMonth(y, m) ==
    IF m = 2 THEN (IF IsLeap(y) THEN 29 ELSE 28)
    ELSE IF m \in {4, 6, 9, 11} THEN 30 ELSE 31

\* days of the year before the first of month m in a common year
DaysBeforeMonth == << 0, 31, 59, 90, 120, 151, 181, 212, 243, 273, 304, 334 >>

\* the civil date <<year, month, day>> of a proleptic Gregorian ordinal
CivilFromOrdinal(ord) ==
    LET n0 == ord - 1
        n400 == n0 \div 146097
        r400 == n0 % 146097
        n100 == r400 \div 36524
        r100 == r400 % 36524
        n4 == r100 \div 1461
        r4 == r100 % 1461
        n1 == r4 \div 365
        n == r4 % 365
        year == n400 * 400 + 1 + n100 * 100 + n4 * 4 + n1
        leap == IF IsLeap(year) THEN 1 ELSE 0
        guess == (n + 50) \div 32
        before == DaysBeforeMonth[guess] + (IF guess > 2 THEN leap ELSE 0)
        month == IF before > n THEN guess - 1 ELSE guess
        preceding == IF before > n
                     THEN before - DaysInMonth(year, guess - 1)
                     ELSE before
    IN  IF n1 = 4 \/ n100 = 4 THEN << year - 1, 12, 31 >>
        ELSE << year, month, n - preceding + 1 >>

Pad2(n) == IF n < 10 THEN "0" \o ToString(n) ELSE ToString(n)

\* '%Y-%m-%d': the year is written without padding, month and day on two digits
FormatYmd(ymd) == ToString(ymd[1]) \o "-" \o Pad2(ymd[2]) \o "-" \o Pad2(ymd[3])

\* dt.strftime('%Y-%m-%d'): the time of day is dropped
Strftime(dt) == FormatYmd(CivilFromOrdinal(dt.ord))

\* dt + timedelta(days=n): the time of day is kept
PlusDays(dt, n) == [ord |-> dt.ord + n, tick |-> dt.tick]

\* the clock value `k` ticks after dt
PlusTicks(dt, k) ==
    [ord |-> dt.ord + ((dt.tick + k) \div TicksPerDay),
     tick |-> (dt.tick + k) % TicksPerDay]

(***************************************************************************)
(* StudyPlanGenerator.__init__: the scenario catalog of the instance.      *)
(***************************************************************************)
StudyPlanGenerator ==
    [scenarios |->
        [exam_prep |-> [intensity |-> "high",
                        focus |-> "comprehensive review and practice",
                        frequency |-> "daily"],
         homework |-> [intensity |-> "medium",
                       focus |-> "specific topics and problem-solving",
                       frequency |-> "as needed"],
         project |-> [intensity |-> "medium",
                      focus |-> "research and application",
                      frequency |-> "regular"]]]

\* dict.get(key, default)
DictGet(dict, key, default) == IF key \in DOMAIN dict THEN dict[key] ELSE default

\* the `activities` dict literal of create_schedule
activities ==
    ("Mathematics" :> << "Review fundamental concepts",
                        "Solve practice problems",
                        "Work on challenging topics",
                        "Complete practice tests",
                        "Review mistakes and reinforce" >>) @@
    ("Science" :> << "Read and understand concepts",
                    "Create visual diagrams",
                    "Conduct experiments or simulations",
                    "Solve application problems",
                    "Review and consolidate learning" >>) @@
    ("History" :> << "Read historical context",
                    "Create timelines",
                    "Analyze primary sources",
                    "Connect events and causes",
                    "Review key dates and figures" >>) @@
    ("Literature" :> << "Read assigned texts",
                       "Analyze themes and characters",
                       "Study literary devices",
                       "Write analysis essays",
                       "Discuss and review" >>) @@
    ("Computer Science" :> << "Study algorithms and concepts",
                             "Write and test code",
                             "Debug and optimize",
                             "Solve coding problems",
                             "Review best practices" >>)

(***************************************************************************)
(* Outcome of a call: a returned value or a raised exception.              *)
(***************************************************************************)
Return(v) == [kind |-> "return", val |-> v]

Raise(e) == [kind |-> "raise", exc |-> e]

(***************************************************************************)
(* StudyPlanGenerator.create_time_slots(hours)                             *)
(***************************************************************************)
\* f"{start_hour}:00 - {end_hour}:00"
SlotLabel(start_hour, end_hour) ==
    ToString(start_hour) \o ":00 - " \o ToString(end_hour) \o ":00"

\* TimeSlotLoop with the hours of the label wrapped at midnight
RECURSIVE TimeSlotLoop_Wrap24(_, _, _, _)
TimeSlotLoop_Wrap24(i, num_slots, start_hour, slots) ==
    IF i >= num_slots THEN slots
    ELSE LET end_hour == start_hour + 1
         IN  TimeSlotLoop_Wrap24(i + 1, num_slots, end_hour,
                 Append(slots, [slot |-> SlotLabel(start_hour % 24, end_hour % 24),
                                duration |-> "1 hour",
                                activity |-> "Study session " \o ToString(i + 1)]))

\* the loop body of create_time_slots run from iteration i (0-based) on
RECURSIVE TimeSlotLoop(_, _, _, _)
TimeSlotLoop(i, num_slots, start_hour, slots) ==
    IF i >= num_slots THEN slots
    ELSE LET end_hour == start_hour + 1
         IN  TimeSlotLoop(i + 1, num_slots, end_hour,
                 Append(slots, [slot |-> SlotLabel(start_hour, end_hour),
                                duration |-> "1 hour",
                                activity |-> "Study session " \o ToString(i + 1)]))

\* create_time_slots with a slot for the incomplete last hour as well
create_time_slots_PartialSlot(hours) ==
    TimeSlotLoop(0, IF hours.num % hours.den = 0 THEN IntOf(hours) ELSE IntOf(hours) + 1,
                 9, << >>)

create_time_slots(hours) == TimeSlotLoop(0, IntOf(hours), 9, << >>)

(***************************************************************************)
(* StudyPlanGenerator.create_schedule(subject, hours, scenario, days)      *)
(* `now` is the value datetime.now() returns at line 66.                   *)
(***************************************************************************)
\* DaySchedule with the date offset taken one day too far
DaySchedule_DateOffByOne(day, start_date, daily_hours, activities_list) ==
    [day |-> day + 1,
     date |-> Strftime(PlusDays(start_date, day + 1)),
     hours |-> Round1(daily_hours),
     activities |-> activities_list[(day % Len(activities_list)) + 1],
     time_slots |-> create_time_slots(daily_hours)]

\* DaySchedule with the activity list read without cycling: past its end
\* the last activity is repeated
DaySchedule_ActivityClamped(day, start_date, daily_hours, activities_list) ==
    [day |-> day + 1,
     date |-> Strftime(PlusDays(start_date, day)),
     hours |-> Round1(daily_hours),
     activities |-> activities_list[(IF day < Len(activities_list) THEN day
                                     ELSE Len(activities_list) - 1) + 1],
     time_slots |-> create_time_slots(daily_hours)]

\* DaySchedule with the slots cut from the displayed, rounded hours
DaySchedule_SlotsFromDisplayed(day, start_date, daily_hours, activities_list) ==
    [day |-> day + 1,
     date |-> Strftime(PlusDays(start_date, day)),
     hours |-> Round1(daily_hours),
     activities |-> activities_list[(day % Len(activities_list)) + 1],
     time_slots |-> create_time_slots(Round1(daily_hours))]

\* the dict built for loop index `day` (0-based)
DaySchedule(day, start_date, daily_hours, activities_list) ==
    [day |-> day + 1,
     date |-> Strftime(PlusDays(start_date, day)),
     hours |-> Round1(daily_hours),
     activities |-> activities_list[(day % Len(activities_list)) + 1],
     time_slots |-> create_time_slots(daily_hours)]

RECURSIVE ScheduleLoop(_, _, _, _, _, _)
ScheduleLoop(day, days, start_date, daily_hours, activities_list, schedule) ==
    IF day >= days THEN schedule
    ELSE ScheduleLoop(day + 1, days, start_date, daily_hours, activities_list,
             Append(schedule, DaySchedule(day, start_date, daily_hours, activities_list)))

\* create_schedule with the Science list as the fallback of unknown subjects
create_schedule_FallbackScience(subject, hours, scenario, days, now) ==
    IF days = 0 THEN Raise("ZeroDivisionError")
    ELSE LET daily_hours == TrueDiv(hours, days)
             start_date == now
             activities_list == DictGet(activities, subject, activities["Science"])
         IN  Return(ScheduleLoop(0, days, start_date, daily_hours, activities_list, << >>))

create_schedule(subject, hours, scenario, days, now) ==
    IF days = 0 THEN Raise("ZeroDivisionError")
    ELSE LET daily_hours == TrueDiv(hours, days)
             start_date == now
             activities_list == DictGet(activities, subject, activities["Mathematics"])
         IN  Return(ScheduleLoop(0, days, start_date, daily_hours, activities_list, << >>))

(***************************************************************************)
(* StudyPlanGenerator.generate_study_plan(subject, hours, scenario, days)  *)
(* `now1` is the clock read at line 48 (start_date), `now2` the clock read *)
(* afterwards by create_schedule at line 66.                               *)
(***************************************************************************)
\* DefaultDays with a default of 7 days
DefaultDays_Seven(days) == IF days = None THEN 7 ELSE days[1]

\* `if days is None: days = 5`
DefaultDays(days) == IF days = None THEN 5 ELSE days[1]

\* generate_study_plan with the homework entry as the fallback of unknown keys
generate_study_plan_FallbackHomework(self, subject, hours, scenario, days, now1, now2) ==
    LET days_ == DefaultDays(days)
        scenario_info == DictGet(self.scenarios, scenario, self.scenarios["homework"])
        start_date == Strftime(now1)
        schedule == create_schedule(subject, hours, scenario, days_, now2)
    IN  IF schedule.kind = "raise" THEN schedule
        ELSE Return([subject |-> subject,
                     total_hours |-> hours,
                     total_days |-> days_,
                     scenario |-> scenario,
                     intensity |-> scenario_info.intensity,
                     focus |-> scenario_info.focus,
                     start_date |-> start_date,
                     schedule |-> schedule.val])

generate_study_plan(self, subject, hours, scenario, days, now1, now2) ==
    LET days_ == DefaultDays(days)
        scenario_info == DictGet(self.scenarios, scenario, self.scenarios["exam_prep"])
        start_date == Strftime(now1)
        schedule == create_schedule(subject, hours, scenario, days_, now2)
    IN  IF schedule.kind = "raise" THEN schedule
        ELSE Return([subject |-> subject,
                     total_hours |-> hours,
                     total_days |-> days_,
                     scenario |-> scenario,
                     intensity |-> scenario_info.intensity,
                     focus |-> scenario_info.focus,
                     start_date |-> start_date,
                     schedule |-> schedule.val])

(***************************************************************************)
(* StudyPlanGenerator.export_to_csv(plan, filename=None)                   *)
(* `now` is the clock read for the default file name.  The outcome is the  *)
(* file name and the rows of the DataFrame, which are also the rows        *)
(* written to the file of that name.                                       *)
(***************************************************************************)
\* the time of day of a clock value, in seconds
SecondOfDay(dt) == dt.tick * (86400 \div TicksPerDay)

\* dt.strftime('%Y%m%d_%H%M%S')
StrftimeStamp(dt) ==
    LET ymd == CivilFromOrdinal(dt.ord)
        sec == SecondOfDay(dt)
    IN  ToString(ymd[1]) \o Pad2(ymd[2]) \o Pad2(ymd[3]) \o "_" \o
        Pad2(sec \div 3600) \o Pad2((sec % 3600) \div 60) \o Pad2(sec % 60)

\* f"study_plan_{plan['subject']}_{...}.csv"
DefaultFilename(plan, now) ==
    "study_plan_" \o plan.subject \o "_" \o StrftimeStamp(now) \o ".csv"

\* the dict appended for one slot of one day
ExportRow(plan, day_plan, slot) ==
    [Date |-> day_plan.date,
     Day |-> "Day " \o ToString(day_plan.day),
     Time |-> slot.slot,
     Activity |-> day_plan.activities,
     Duration |-> slot.duration,
     Subject |-> plan.subject,
     Scenario |-> plan.scenario]

\* the inner loop: the rows of one day, slot by slot
RECURSIVE SlotRowsLoop(_, _, _, _)
SlotRowsLoop(plan, day_plan, j, rows) ==
    IF j > Len(day_plan.time_slots) THEN rows
    ELSE SlotRowsLoop(plan, day_plan, j + 1,
             Append(rows, ExportRow(plan, day_plan, day_plan.time_slots[j])))

\* DayRowsLoop with a row without slot for a day that has no slot
RECURSIVE DayRowsLoop_EmptyDayRow(_, _, _)
DayRowsLoop_EmptyDayRow(plan, d, rows) ==
    IF d > Len(plan.schedule) THEN rows
    ELSE DayRowsLoop_EmptyDayRow(plan, d + 1,
             IF plan.schedule[d].time_slots = << >>
             THEN Append(rows, ExportRow(plan, plan.schedule[d],
                                         [slot |-> "", duration |-> ""]))
             ELSE SlotRowsLoop(plan, plan.schedule[d], 1, rows))

\* the outer loop: day by day
RECURSIVE DayRowsLoop(_, _, _)
DayRowsLoop(plan, d, rows) ==
    IF d > Len(plan.schedule) THEN rows
    ELSE DayRowsLoop(plan, d + 1, SlotRowsLoop(plan, plan.schedule[d], 1, rows))

\* df.to_csv(filename, index=False): the file of that name now holds the rows
WriteFile(fs, filename, rows) ==
    [n \in DOMAIN fs \cup {filename} |-> IF n = filename THEN rows ELSE fs[n]]

export_to_csv(plan, filename, now) ==
    LET filename_ == IF filename = None THEN DefaultFilename(plan, now) ELSE filename[1]
        rows == DayRowsLoop(plan, 1, << >>)
    IN  Return([filename |-> filename_, df |-> rows])

(***************************************************************************)
(* numpy's global random generator.  Its state is a number; a draw returns *)
(* a value below a limit and moves the state on.  shuffle and choice       *)
(* without replacement permute by swapping from the last place down.       *)
(***************************************************************************)
RngNext(s) == (5 * s + 3) % 64

\* the value drawn from state s, below k
RandBelow(s, k) == (RngNext(s) \div 4) % k

\* np.random.shuffle: places i, i-1, .., 2 are swapped with a drawn place
RECURSIVE ShuffleLoop(_, _, _)
ShuffleLoop(seq, i, s) ==
    IF i < 2 THEN [val |-> seq, rng |-> s]
    ELSE LET j == 1 + RandBelow(s, i)
             swapped == [seq EXCEPT ![i] = seq[j], ![j] = seq[i]]
         IN  ShuffleLoop(swapped, i - 1, RngNext(s))

\* np.random.choice(a, size, replace=False): the first `size` of a permutation
ChoiceNoReplace(a, size, s) ==
    LET p == ShuffleLoop(a, Len(a), s)
    IN  [val |-> SubSeq(p.val, 1, size), rng |-> p.rng]

\* np.random.choice(a): one element, drawn with replacement
ChoiceOne(a, s) == [val |-> a[1 + RandBelow(s, Len(a))], rng |-> RngNext(s)]

(***************************************************************************)
(* QuizGenerator (src/ml_models.py).  A question is the pair of its first  *)
(* word and the rest of its text.  The fitted classifier is opaque: it is  *)
(* a number whose bits say, per leading word, whether questions led by     *)
(* that word are predicted Medium.                                         *)
(***************************************************************************)
QuizGenerator == [is_trained |-> FALSE, model |-> None]

QuestionText(q) == q.first \o " " \o q.rest

quiz_templates ==
    ("Mathematics" :> <<
        [first |-> "What", rest |-> "is the fundamental theorem of algebra?"],
        [first |-> "Explain", rest |-> "the concept of derivatives in calculus"],
        [first |-> "How", rest |-> "do you solve quadratic equations?"],
        [first |-> "What", rest |-> "is the difference between permutations and combinations?"],
        [first |-> "Describe", rest |-> "the properties of logarithmic functions"],
        [first |-> "What", rest |-> "is matrix multiplication and its applications?"],
        [first |-> "Explain", rest |-> "the concept of limits in calculus"],
        [first |-> "How", rest |-> "do you calculate standard deviation?"] >>) @@
    ("Science" :> <<
        [first |-> "What", rest |-> "is the law of conservation of energy?"],
        [first |-> "Explain", rest |-> "the process of osmosis in cells"],
        [first |-> "What", rest |-> "are the three states of matter?"],
        [first |-> "Describe", rest |-> "the water cycle and its importance"],
        [first |-> "What", rest |-> "is the periodic table and how is it organized?"],
        [first |-> "Explain", rest |-> "photosynthesis and cellular respiration"],
        [first |-> "What", rest |-> "is the structure of the solar system?"],
        [first |-> "Describe", rest |-> "the process of mitosis and meiosis"] >>) @@
    ("History" :> <<
        [first |-> "What", rest |-> "were the main causes of World War I?"],
        [first |-> "Describe", rest |-> "the impact of the Renaissance on European society"],
        [first |-> "What", rest |-> "was the significance of the French Revolution?"],
        [first |-> "Explain", rest |-> "the causes and effects of the Industrial Revolution"],
        [first |-> "What", rest |-> "were the key events of the Cold War?"],
        [first |-> "Describe", rest |-> "the structure of ancient Roman government"],
        [first |-> "What", rest |-> "was the significance of the Magna Carta?"],
        [first |-> "Explain", rest |-> "the causes of the American Civil War"] >>) @@
    ("Literature" :> <<
        [first |-> "What", rest |-> "are the main themes in Shakespearean tragedies?"],
        [first |-> "Describe", rest |-> "the literary devices used in poetry"],
        [first |-> "What", rest |-> "is the significance of symbolism in literature?"],
        [first |-> "Explain", rest |-> "the difference between protagonist and antagonist"],
        [first |-> "What", rest |-> "are the characteristics of the Romantic period?"],
        [first |-> "Describe", rest |-> "the narrative techniques in modern fiction"],
        [first |-> "What", rest |-> "is the importance of setting in storytelling?"],
        [first |-> "Explain", rest |-> "the concept of irony in literature"] >>) @@
    ("Computer Science" :> <<
        [first |-> "What", rest |-> "is the difference between arrays and linked lists?"],
        [first |-> "Explain", rest |-> "the concept of recursion in programming"],
        [first |-> "What", rest |-> "is object-oriented programming and its principles?"],
        [first |-> "Describe", rest |-> "the time complexity of common algorithms"],
        [first |-> "What", rest |-> "is the difference between SQL and NoSQL databases?"],
        [first |-> "Explain", rest |-> "the concept of inheritance in OOP"],
        [first |-> "What", rest |-> "is the purpose of version control systems?"],
        [first |-> "Describe", rest |-> "the layers of the OSI model"] >>)

\* train(): fits the classifier and marks the generator trained
train(self, fitted) == [is_trained |-> TRUE, model |-> Some(fitted)]

WordBit(word) ==
    CASE word = "What" -> 1
      [] word = "Explain" -> 2
      [] word = "Describe" -> 4
      [] OTHER -> 8

\* model.predict: 1 for Medium, 0 for Easy
Predict(model, q) == (model \div WordBit(q.first)) % 2

\* model.predict_proba(X_vec)[0].max() (line 86): the largest class
\* probability the fitted model gives the question.  The arithmetic of the
\* regression is not modelled: the value is the term naming the fitted
\* model and the question it is computed from, one value per question
PredictProba(model, q) == [predict_proba_max |-> << model, QuestionText(q) >>]

\* classify_difficulty trains first when the generator is untrained;
\* `fitted` is the classifier that training produces
classify_difficulty(self, q, fitted) ==
    LET self1 == IF ~self.is_trained THEN train(self, fitted) ELSE self
        difficulty == Predict(self1.model[1], q)
    IN  [label |-> IF difficulty = 1 THEN "Medium" ELSE "Easy",
         confidence |-> PredictProba(self1.model[1], q),
         self |-> self1]

correct_answers ==
    ("What" :> "A fundamental concept") @@
    ("Explain" :> "A detailed process") @@
    ("Describe" :> "A comprehensive overview") @@
    ("How" :> "A step-by-step method")

Letters == << "A", "B", "C", "D" >>

generate_options(q, s) ==
    LET correct == DictGet(correct_answers, q.first, "The correct answer")
        incorrect == << "An incorrect interpretation", "A false assumption",
                        "A common misconception" >>
        sh == ShuffleLoop(<< correct >> \o incorrect, 4, s)
        options == sh.val
    IN  [val |-> [A |-> options[1], B |-> options[2], C |-> options[3],
                  D |-> options[4],
                  correct |-> Letters[CHOOSE i \in 1..4 : options[i] = correct]],
         rng |-> sh.rng]

QuizEntry(q, c, options) ==
    [question |-> QuestionText(q), difficulty |-> c.label,
     confidence |-> c.confidence, options |-> options]

\* the loop over the selected questions (lines 149-160): a question whose
\* difficulty does not match the filter is skipped
RECURSIVE SelectedLoop(_, _, _, _, _, _, _)
SelectedLoop(self, selected, i, difficulty, quiz, s, fitted) ==
    IF i > Len(selected) THEN [quiz |-> quiz, self |-> self, rng |-> s]
    ELSE LET c == classify_difficulty(self, selected[i], fitted)
         IN  IF difficulty # "Mixed" /\ c.label # difficulty
             THEN SelectedLoop(c.self, selected, i + 1, difficulty, quiz, s, fitted)
             ELSE LET o == generate_options(selected[i], s)
                  IN  SelectedLoop(c.self, selected, i + 1, difficulty,
                                   Append(quiz, QuizEntry(selected[i], c, o.val)),
                                   o.rng, fitted)

\* the padding loop (lines 162-170): while the quiz is short, a question
\* drawn from the whole list is appended
RECURSIVE PadLoop(_, _, _, _, _, _)
PadLoop(self, questions, num_questions, quiz, s, fitted) ==
    IF Len(quiz) < num_questions /\ Len(questions) > 0
    THEN LET q == ChoiceOne(questions, s)
             c == classify_difficulty(self, q.val, fitted)
             o == generate_options(q.val, q.rng)
         IN  PadLoop(c.self, questions, num_questions,
                     Append(quiz, QuizEntry(q.val, c, o.val)), o.rng, fitted)
    ELSE [quiz |-> quiz, self |-> self, rng |-> s]

Min(a, b) == IF a < b THEN a ELSE b

Max(a, b) == IF a > b THEN a ELSE b

\* quiz[:n] for n >= 0
Prefix(seq, n) == SubSeq(seq, 1, Min(n, Len(seq)))

\* generate_quiz without the padding loop
generate_quiz_NoPadding(self, subject, num_questions, difficulty, fitted, seed) ==
    LET questions == DictGet(quiz_templates, subject, quiz_templates["Mathematics"])
        selected == ChoiceNoReplace(questions, Min(num_questions, Len(questions)), seed)
        kept == SelectedLoop(self, selected.val, 1, difficulty, << >>,
                             selected.rng, fitted)
    IN  [outcome |-> Return(Prefix(kept.quiz, num_questions)),
         self |-> kept.self]

\* generate_quiz(subject, num_questions, difficulty) for num_questions >= 0;
\* `seed` is the state of the random generator when the call starts
generate_quiz(self, subject, num_questions, difficulty, fitted, seed) ==
    LET questions == DictGet(quiz_templates, subject, quiz_templates["Mathematics"])
        selected == ChoiceNoReplace(questions, Min(num_questions, Len(questions)), seed)
        kept == SelectedLoop(self, selected.val, 1, difficulty, << >>,
                             selected.rng, fitted)
        padded == PadLoop(kept.self, questions, num_questions, kept.quiz,
                          kept.rng, fitted)
    IN  [outcome |-> Return(Prefix(padded.quiz, num_questions)),
         self |-> padded.self]

(***************************************************************************)
(* TextSummarizer (src/dl_models.py).  A text is a sequence of tokens: the *)
(* period ".", the blank " " and words.  A sentence is the string its      *)
(* tokens spell.  List indices are Python's, counted from 0.               *)
(***************************************************************************)
TextSummarizer == [max_words |-> 100, model |-> None, tokenizer |-> None]

\* text.split('.'): the pieces between periods, empty pieces included
RECURSIVE SplitLoop(_, _, _, _)
SplitLoop(text, i, piece, pieces) ==
    IF i > Len(text) THEN Append(pieces, piece)
    ELSE IF text[i] = "." THEN SplitLoop(text, i + 1, << >>, Append(pieces, piece))
    ELSE SplitLoop(text, i + 1, Append(piece, text[i]), pieces)

Split(text) == SplitLoop(text, 1, << >>, << >>)

\* s.strip(): leading and trailing blanks removed
RECURSIVE Strip(_)
Strip(piece) ==
    IF piece = << >> THEN piece
    ELSE IF Head(piece) = " " THEN Strip(Tail(piece))
    ELSE IF piece[Len(piece)] = " " THEN Strip(SubSeq(piece, 1, Len(piece) - 1))
    ELSE piece

\* the string a sequence of tokens spells
RECURSIVE Spell(_)
Spell(piece) == IF piece = << >> THEN "" ELSE Head(piece) \o Spell(Tail(piece))

\* [s.strip() for s in sentences if s.strip()]
RECURSIVE StripFilter(_, _, _)
StripFilter(pieces, i, sentences) ==
    IF i > Len(pieces) THEN sentences
    ELSE IF Strip(pieces[i]) # << >>
         THEN StripFilter(pieces, i + 1, Append(sentences, Spell(Strip(pieces[i]))))
         ELSE StripFilter(pieces, i + 1, sentences)

\* '. '.join(strings)
RECURSIVE Join(_)
Join(strings) ==
    IF strings = << >> THEN ""
    ELSE IF Len(strings) = 1 THEN strings[1]
    ELSE strings[1] \o ". " \o Join(Tail(strings))

\* a // b for b # 0, rounding toward minus infinity
FloorDiv(a, b) == IF b > 0 THEN a \div b ELSE (-a) \div (-b)

\* list(range(start, stop, step)) for step >= 1
RECURSIVE Range(_, _, _)
Range(start, stop, step) ==
    IF start >= stop THEN << >> ELSE << start >> \o Range(start + step, stop, step)

\* sorted(set(indices))
RECURSIVE SortedSet(_)
SortedSet(S) ==
    IF S = {} THEN << >>
    ELSE LET m == CHOOSE x \in S : \A y \in S : x <= y
         IN  << m >> \o SortedSet(S \ {m})

SeqRange(seq) == {seq[i] : i \in 1..Len(seq)}

\* the indices of the sentences kept when the text is longer than the
\* target (lines 93-94)
selected_indices(len, num_sentences) ==
    LET step == Max(1, FloorDiv(len, num_sentences - 2))
        all == << 0 >> \o Range(1, len - 1, step) \o << len - 1 >>
    IN  Prefix(SortedSet(SeqRange(all)), num_sentences)

\* the smallest power of two that is at least q, from p on
RECURSIVE PowerOfTwoAtLeast(_, _)
PowerOfTwoAtLeast(q, p) == IF p >= q THEN p ELSE PowerOfTwoAtLeast(q, 2 * p)

\* int(len * r) for the double r nearest to n/d (len >= 0, n >= 0, d > 0).
\* The product is rounded to a double before it is truncated: when len * n/d
\* is a whole number q and r lies below n/d, the product lies below q, and
\* it is rounded up to q only if it is within half a spacing of q.
IntOfProduct(len, n, d) ==
    LET q == (len * n) \div d
    IN  IF (len * n) % d # 0 \/ q = 0 THEN q
        ELSE LET bb == ScaleDen(n, d)
                 aa == ScaleNum(n, bb)
                 rem == MantissaRem(aa - bb, bb)
             IN  IF 2 * rem > bb THEN q
                 ELSE IF 4 * len * rem * n <= PowerOfTwoAtLeast(q, 1) * d * aa THEN q
                 ELSE q - 1

\* the target number of sentences (line 87); the ratio is a float
TargetCount(len, compression_ratio) ==
    Max(1, IntOfProduct(len, compression_ratio.num, compression_ratio.den))

\* the model is loaded on first use (lines 76-81); when the saved model
\* cannot be loaded it is trained, which also sets the tokenizer
LoadModel(self, loaded) ==
    IF self.model # None THEN self
    ELSE IF loaded THEN [self EXCEPT !.model = Some("model")]
    ELSE [self EXCEPT !.model = Some("model"), !.tokenizer = Some("vectorizer")]

\* summarize(text, compression_ratio); `loaded` says whether the saved
\* model could be loaded
summarize(self, text, compression_ratio, loaded) ==
    LET self1 == LoadModel(self, loaded)
        sentences == StripFilter(Split(text), 1, << >>)
        num_sentences == TargetCount(Len(sentences), compression_ratio)
    IN  IF Len(sentences) <= num_sentences
        THEN [outcome |-> Return(Join(sentences) \o "."), self |-> self1]
        ELSE IF num_sentences - 2 = 0
        THEN [outcome |-> Raise("ZeroDivisionError"), self |-> self1]
        ELSE LET indices == selected_indices(Len(sentences), num_sentences)
                 kept == [k \in 1..Len(indices) |-> sentences[indices[k] + 1]]
             IN  [outcome |-> Return(Join(kept) \o "."), self |-> self1]

(***************************************************************************)
(* StudyTipsGenerator (src/nlp_processor.py)                               *)
(***************************************************************************)
tips_templates ==
    ("Mathematics" :> <<
        "Practice solving problems regularly to build problem-solving skills.",
        "Review key formulas and theorems daily to strengthen memory.",
        "Work through step-by-step solutions to understand the logic.",
        "Create flashcards for important concepts and definitions.",
        "Solve practice problems from different sources for variety." >>) @@
    ("Science" :> <<
        "Create diagrams and visual representations of concepts.",
        "Conduct experiments or simulations to understand processes.",
        "Review scientific terminology and definitions regularly.",
        "Connect concepts to real-world applications and examples.",
        "Study the relationships between different scientific principles." >>) @@
    ("History" :> <<
        "Create timelines to understand the sequence of events.",
        "Read primary sources to gain deeper understanding.",
        "Connect historical events to their causes and consequences.",
        "Discuss historical topics with peers to gain different perspectives.",
        "Review key dates and important figures regularly." >>) @@
    ("Literature" :> <<
        "Read the text multiple times to catch subtle details.",
        "Take notes on character development and plot progression.",
        "Analyze literary devices and their effects on the narrative.",
        "Discuss themes and interpretations with others.",
        "Write summaries to reinforce your understanding." >>) @@
    ("Computer Science" :> <<
        "Write code regularly to practice programming concepts.",
        "Debug code to understand how programs work.",
        "Study algorithms and their time complexity.",
        "Review documentation and best practices.",
        "Participate in coding challenges and competitions." >>)

StudyTipsGenerator == [tips_templates |-> tips_templates]

RECURSIVE TipsLoop(_, _, _, _)
TipsLoop(tips, i, stop, selected_tips) ==
    IF i >= stop THEN selected_tips
    ELSE TipsLoop(tips, i + 1, stop, Append(selected_tips, tips[i + 1]))

\* generate_tips starting at the second tip of the list
generate_tips_SkipFirst(self, subject, num_tips) ==
    LET tips == DictGet(self.tips_templates, subject, self.tips_templates["Mathematics"])
    IN  TipsLoop(tips, 1, Min(num_tips, Len(tips)), << >>)

\* generate_tips(subject, num_tips)
generate_tips(self, subject, num_tips) ==
    LET tips == DictGet(self.tips_templates, subject, self.tips_templates["Mathematics"])
    IN  TipsLoop(tips, 0, Min(num_tips, Len(tips)), << >>)

(***************************************************************************)
(* Inputs.                                                                 *)
(***************************************************************************)
\* the five catalog subjects and one subject outside the catalog
Subjects == DOMAIN activities \cup {"Art"}

\* the three catalog scenarios and one key outside the catalog
Scenarios == DOMAIN StudyPlanGenerator.scenarios \cup {"midterm_cram"}

HoursValues == (-MaxNegHours)..MaxHours

DaysValues == (-MaxNegDays)..MaxDays

\* daily-hour budgets n/d from -1 up to MaxSlotHours + 1, d = 10 for decimals
SlotDens == (1..MaxSlotDen) \cup {10}

SlotHours == UNION {{Float(n, d) : n \in (-d)..((MaxSlotHours + 1) * d - 1)} : d \in SlotDens}

\* 2026-12-30 and 2028-02-27 as ordinals: a week from there crosses the end
\* of a year and the 29th of February
StartOrdinals == {739980, 740404}

ClockInRange(c) == \E s \in StartOrdinals : s <= c.ord /\ c.ord <= s + MaxClockDays

(***************************************************************************)
(* The module-level singletons of app.py and verify_setup.py: each is None *)
(* until it is constructed.                                                *)
(***************************************************************************)
Singletons == << "quiz_gen", "suggester", "summarizer", "feedback_gen",
                 "nlp_processor", "plan_generator" >>

AppNone == [m \in SeqRange(Singletons) |-> None]

InitsZero == [m \in SeqRange(Singletons) |-> 0]

\* no request is being served
NoThreads == << >>

\* the caller holds no plan
NoPlans == << >>

\* the working directory holds no exported file
NoFiles == << >>

(***************************************************************************)
(* The state machine.                                                      *)
(***************************************************************************)
Init ==
    /\ clock \in {[ord |-> s, tick |-> t] : s \in StartOrdinals, t \in 0..(TicksPerDay - 1)}
    /\ generator = StudyPlanGenerator
    /\ call = [op |-> "none"]
    /\ result = [kind |-> "none"]
    /\ app = AppNone
    /\ threads = NoThreads
    /\ inits = InitsZero
    /\ heap = NoPlans
    /\ files = NoFiles

\* the system clock advances
Tick ==
    /\ call.op = "none"
    /\ ClockInRange(PlusTicks(clock, 1))
    /\ clock' = PlusTicks(clock, 1)
    /\ UNCHANGED <<generator, call, result>>
    /\ UNCHANGED appVars
    /\ UNCHANGED ioVars

\* a call of create_time_slots
CreateTimeSlots ==
    /\ call.op = "none"
    /\ \E hours \in SlotHours :
        /\ call' = [op |-> "create_time_slots", hours |-> hours]
        /\ result' = Return(create_time_slots(hours))
        /\ UNCHANGED <<clock, generator>>
        /\ UNCHANGED appVars
        /\ UNCHANGED ioVars

\* a call of generate_study_plan; the clock may advance between its two reads
GenerateStudyPlan ==
    /\ call.op = "none"
    /\ \E subject \in Subjects, hours \in HoursValues, scenario \in Scenarios,
          days \in {None} \cup {Some(d) : d \in DaysValues}, adv \in 0..MaxAdvance :
        LET now1 == clock
            now2 == PlusTicks(clock, adv)
        IN  /\ ClockInRange(now2)
            /\ call' = [op |-> "generate_study_plan", subject |-> subject,
                        hours |-> hours, scenario |-> scenario, days |-> days,
                        now1 |-> now1, now2 |-> now2]
            /\ result' = generate_study_plan(generator, subject, hours, scenario,
                                             days, now1, now2)
            /\ clock' = now2
            /\ UNCHANGED generator
            /\ UNCHANGED appVars
            /\ UNCHANGED ioVars

\* export_to_csv called on the plan just returned, as the loop of the
\* __main__ block of study_plan_generator.py does: the file is written
ExportToCsv ==
    /\ call.op = "generate_study_plan"
    /\ result.kind = "return"
    /\ call' = [op |-> "export_to_csv", plan |-> result.val, args |-> call,
                now |-> clock]
    /\ LET r == export_to_csv(result.val, None, clock)
       IN  /\ result' = r
           /\ files' = WriteFile(files, r.val.filename, r.val.df)
    /\ UNCHANGED <<clock, generator, heap>>
    /\ UNCHANGED appVars

\* the caller takes the outcome of its call and may call again
Finish ==
    /\ call.op # "none"
    /\ call' = [op |-> "none"]
    /\ result' = [kind |-> "none"]
    /\ UNCHANGED <<clock, generator>>
    /\ UNCHANGED appVars
    /\ UNCHANGED ioVars

Next == Tick \/ CreateTimeSlots \/ GenerateStudyPlan \/ Finish

Spec == Init /\ [][Next]_vars

\* one pass of the loop of the __main__ block (lines 176-177): a plan is
\* generated and exported into the working directory
NextExport == GenerateStudyPlan \/ ExportToCsv

ExportSpec == Init /\ [][NextExport]_vars

TypeOK ==
    /\ clock.tick \in 0..(TicksPerDay - 1)
    /\ generator = StudyPlanGenerator
    /\ call.op \in {"none", "create_time_slots", "generate_study_plan", "export_to_csv"}
    /\ result.kind \in {"none", "return", "raise"}

(***************************************************************************)
(* The quiz generator used as a library, as verify_setup.py does: it is    *)
(* constructed, trained, and asked for quizzes.                            *)
(***************************************************************************)
Difficulties == {"Mixed", "Easy", "Medium", "Hard"}

Classifiers == 0..MaxClassifier

InitQuiz ==
    /\ clock = [ord |-> 739980, tick |-> 0]
    /\ generator = StudyPlanGenerator
    /\ call = [op |-> "none"]
    /\ result = [kind |-> "none"]
    /\ app = [AppNone EXCEPT !.quiz_gen = Some(QuizGenerator)]
    /\ threads = NoThreads
    /\ inits = InitsZero
    /\ heap = NoPlans
    /\ files = NoFiles

\* quiz_gen.train()
QuizTrain ==
    /\ call.op = "none"
    /\ ~app.quiz_gen[1].is_trained
    /\ \E fitted \in Classifiers :
        /\ call' = [op |-> "train"]
        /\ result' = Return(None)
        /\ app' = [app EXCEPT !.quiz_gen = Some(train(app.quiz_gen[1], fitted))]
        /\ UNCHANGED <<clock, generator, threads, inits>>
        /\ UNCHANGED ioVars

\* quiz_gen.generate_quiz(subject, num_questions, difficulty)
GenerateQuiz ==
    /\ call.op = "none"
    /\ LET self == app.quiz_gen[1]
       IN  \E subject \in Subjects, num_questions \in 0..MaxQuestions,
              difficulty \in Difficulties, seed \in 0..MaxSeed,
              fitted \in (IF self.is_trained THEN {self.model[1]} ELSE Classifiers) :
            LET r == generate_quiz(self, subject, num_questions, difficulty,
                                   fitted, seed)
            IN  /\ call' = [op |-> "generate_quiz", subject |-> subject,
                            num_questions |-> num_questions,
                            difficulty |-> difficulty, seed |-> seed]
                /\ result' = r.outcome
                /\ app' = [app EXCEPT !.quiz_gen = Some(r.self)]
                /\ UNCHANGED <<clock, generator, threads, inits>>
                /\ UNCHANGED ioVars

NextQuiz == QuizTrain \/ GenerateQuiz \/ Finish

QuizSpec == InitQuiz /\ [][NextQuiz]_vars

(***************************************************************************)
(* The summarizer and the tips generator used as libraries.                *)
(***************************************************************************)
\* a text of n sentences S1 .. Sn in one of four layouts:
\*   plain   "S1. S2. S3."      open    "S1. S2. S3"
\*   padded  " S1 . S2 . S3 . " dotted  ".S1..S2..S3.."
RECURSIVE TextOf(_, _)
TextOf(n, layout) ==
    IF n = 0
    THEN (CASE layout = "padded" -> << " " >>
            [] layout = "dotted" -> << "." >>
            [] OTHER -> << >>)
    ELSE LET word == "S" \o ToString(n)
             before == TextOf(n - 1, IF layout = "open" THEN "plain" ELSE layout)
         IN  CASE layout = "plain" ->
                    before \o (IF n > 1 THEN << " " >> ELSE << >>) \o << word, "." >>
               [] layout = "open" ->
                    before \o (IF n > 1 THEN << " " >> ELSE << >>) \o << word >>
               [] layout = "padded" -> before \o << word, " ", ".", " " >>
               [] OTHER -> before \o << word, ".", "." >>

Layouts == {"plain", "open", "padded", "dotted"}

Texts == {TextOf(n, layout) : n \in 0..MaxSentences, layout \in Layouts}

\* 0.3 is the default compression ratio
Ratios == {Float(3, 10), Float(1, 2), Float(1, 1)}

InitText ==
    /\ clock = [ord |-> 739980, tick |-> 0]
    /\ generator = StudyPlanGenerator
    /\ call = [op |-> "none"]
    /\ result = [kind |-> "none"]
    /\ app = [AppNone EXCEPT !.summarizer = Some(TextSummarizer),
                             !.nlp_processor = Some(StudyTipsGenerator)]
    /\ threads = NoThreads
    /\ inits = InitsZero
    /\ heap = NoPlans
    /\ files = NoFiles

\* summarizer.summarize(text, compression_ratio)
Summarize ==
    /\ call.op = "none"
    /\ \E text \in Texts, compression_ratio \in Ratios, loaded \in BOOLEAN :
        LET r == summarize(app.summarizer[1], text, compression_ratio, loaded)
        IN  /\ call' = [op |-> "summarize", text |-> text,
                        compression_ratio |-> compression_ratio]
            /\ result' = r.outcome
            /\ app' = [app EXCEPT !.summarizer = Some(r.self)]
            /\ UNCHANGED <<clock, generator, threads, inits>>
            /\ UNCHANGED ioVars

\* nlp.generate_tips(subject, num_tips=num_tips)
GenerateTips ==
    /\ call.op = "none"
    /\ \E subject \in Subjects, num_tips \in (-1)..MaxTips :
        /\ call' = [op |-> "generate_tips", subject |-> subject,
                    num_tips |-> num_tips]
        /\ result' = Return(generate_tips(app.nlp_processor[1], subject, num_tips))
        /\ UNCHANGED <<clock, generator, app, threads, inits>>
        /\ UNCHANGED ioVars

NextText == Summarize \/ GenerateTips \/ Finish

TextSpec == InitText /\ [][NextText]_vars

(***************************************************************************)
(* The web application (src/app.py).  A JSON number is the rational it     *)
(* stands for; a request body maps the fields it carries to their values.  *)
(***************************************************************************)
\* ResourceSuggester(): not trained
ResourceSuggester == [is_trained |-> FALSE]

\* ResourceSuggester.train(texts): the clustering is fitted
ResourceSuggester_train(self) == [self EXCEPT !.is_trained = TRUE]

FeedbackGenerator == [feedback_templates |-> "templates"]

\* the object the constructor call of a try block returns
Construct(m) ==
    CASE m = "quiz_gen" -> QuizGenerator
      [] m = "suggester" -> ResourceSuggester
      [] m = "summarizer" -> TextSummarizer
      [] m = "feedback_gen" -> FeedbackGenerator
      [] m = "nlp_processor" -> StudyTipsGenerator
      [] OTHER -> StudyPlanGenerator

\* the try blocks that call train on the global they have just assigned
\* (lines 38 and 46)
Trainable == {"quiz_gen", "suggester"}

\* quiz_gen.train() / suggester.train(..) on the object the global holds;
\* the classifier fitted at start-up is not consulted by the plan endpoints
Train(m, obj) ==
    IF m = "quiz_gen" THEN train(obj, 0) ELSE ResourceSuggester_train(obj)

\* how a try block can end.  "ok": no exception.  "before": an exception
\* before the global is assigned (pd.read_csv, line 44; the NLTK stop words
\* read by StudyTipsGenerator(), line 64).  "after": an exception in train
\* after the global was assigned (df['text'] or the clustering, line 46).
\* QuizGenerator.train fits fixed data and sets is_trained before it writes
\* quiz_model.pkl, so an exception there leaves the same generator as "ok".
Outcomes(m) ==
    CASE m = "suggester" -> {"ok", "before", "after"}
      [] m = "nlp_processor" -> {"ok", "before"}
      [] OTHER -> {"ok"}

\* the outcomes of the six try blocks of one run of initialize_models
InitOutcomes ==
    {how \in [SeqRange(Singletons) -> {"ok", "before", "after"}] :
        \A m \in SeqRange(Singletons) : how[m] \in Outcomes(m)}

\* one try block of initialize_models: the object is built and assigned to
\* the global, then trained; an exception leaves the global as it is then
InitBlock(a, n, m, outcome) ==
    IF outcome = "before" THEN [app |-> a, inits |-> n]
    ELSE LET built == [a EXCEPT ![m] = Some(Construct(m))]
             counted == [n EXCEPT ![m] = @ + 1]
         IN  IF m \in Trainable /\ outcome = "ok"
             THEN [app |-> [built EXCEPT ![m] = Some(Train(m, built[m][1]))],
                   inits |-> counted]
             ELSE [app |-> built, inits |-> counted]

RECURSIVE InitBlocks(_, _, _, _)
InitBlocks(a, n, k, how) ==
    IF k > Len(Singletons) THEN [app |-> a, inits |-> n]
    ELSE LET r == InitBlock(a, n, Singletons[k], how[Singletons[k]])
         IN  InitBlocks(r.app, r.inits, k + 1, how)

\* initialize_models() run from start to end; `how` gives the outcome of
\* each try block
initialize_models(a, n, how) ==
    IF a.quiz_gen # None THEN [app |-> a, inits |-> n]
    ELSE InitBlocks(a, n, 1, how)

\* str(e) of the errors the plan endpoint reports
ErrorText(exc) ==
    CASE exc = "ZeroDivisionError" -> "division by zero"
      [] exc = "AttributeError" ->
             "'NoneType' object has no attribute 'generate_study_plan'"
      [] OTHER -> exc

Response(status, json) == [status |-> status, json |-> json]

\* the arguments of generate_plan with the hours default 1
ParseArgs_HoursDefaultOne(data) ==
    [subject |-> DictGet(data, "subject", "Mathematics"),
     hours |-> IntOf(DictGet(data, "hours", Float(1, 1))),
     scenario |-> DictGet(data, "scenario", "exam_prep"),
     days |-> IntOf(DictGet(data, "days", Float(5, 1)))]

\* lines 95-98: the arguments read from the request body
ParseArgs(data) ==
    [subject |-> DictGet(data, "subject", "Mathematics"),
     hours |-> IntOf(DictGet(data, "hours", Float(5, 1))),
     scenario |-> DictGet(data, "scenario", "exam_prep"),
     days |-> IntOf(DictGet(data, "days", Float(5, 1)))]

\* jsonify(plan), or the error response of the except clause
RespondPlan(outcome) ==
    IF outcome.kind = "return" THEN Response(200, outcome.val)
    ELSE Response(500, [error |-> ErrorText(outcome.exc)])

\* the handler generate_plan() for the body `data`
generate_plan(a, data, now1, now2) ==
    LET args == ParseArgs(data)
    IN  IF a.plan_generator = None THEN RespondPlan(Raise("AttributeError"))
        ELSE RespondPlan(generate_study_plan(a.plan_generator[1], args.subject,
                                             args.hours, args.scenario,
                                             Some(args.days), now1, now2))

(***************************************************************************)
(* The application serving one request at a time.                          *)
(***************************************************************************)
Opt(S) == {None} \cup {Some(v) : v \in S}

Field(name, opt) == IF opt = None THEN << >> ELSE name :> opt[1]

\* request bodies: every field is either omitted or supplied
Bodies ==
    {Field("subject", s) @@ Field("hours", h) @@ Field("scenario", c) @@ Field("days", d) :
        s \in Opt({"Science", "Art"}),
        h \in Opt({Float(3, 1), Float(5, 2), Float(-1, 1)}),
        c \in Opt({"homework", "midterm_cram"}),
        d \in Opt({Float(2, 1), Float(7, 2), Float(0, 1)})}

InitRoute ==
    /\ clock \in {[ord |-> 739980, tick |-> t] : t \in 0..(TicksPerDay - 1)}
    /\ generator = StudyPlanGenerator
    /\ call = [op |-> "none"]
    /\ result = [kind |-> "none"]
    /\ app = AppNone
    /\ threads = NoThreads
    /\ inits = InitsZero
    /\ heap = NoPlans
    /\ files = NoFiles

\* POST /api/generate-plan: before_request, then the handler
PlanRequest ==
    /\ call.op = "none"
    /\ \E data \in Bodies, how \in InitOutcomes, adv \in 0..MaxAdvance :
        LET now1 == clock
            now2 == PlusTicks(clock, adv)
            init == initialize_models(app, inits, how)
        IN  /\ ClockInRange(now2)
            /\ call' = [op |-> "generate_plan", data |-> data,
                        now1 |-> now1, now2 |-> now2]
            /\ result' = Return(generate_plan(init.app, data, now1, now2))
            /\ app' = init.app
            /\ inits' = init.inits
            /\ clock' = now2
            /\ UNCHANGED <<generator, threads>>
            /\ UNCHANGED ioVars

NextRoute == Tick \/ PlanRequest \/ Finish

RouteSpec == InitRoute /\ [][NextRoute]_vars

(***************************************************************************)
(* The application serving requests concurrently (app.run starts Flask's   *)
(* threaded server: one thread per request).  A thread runs               *)
(* before_request, then the handler; other threads may run between its     *)
(* steps.  Every request is a POST /api/generate-plan.                     *)
(***************************************************************************)
Requests == 1..MaxRequests

\* the bodies of the requests, which arrive in turn: the body without
\* fields, and one naming a scenario the catalog lacks
ConcBodies ==
    << << >>,
       Field("subject", Some("Science")) @@ Field("hours", Some(Float(3, 1)))
          @@ Field("scenario", Some("midterm_cram")) @@ Field("days", Some(Float(2, 1))) >>

\* the body of the t-th request
ConcBody(t) == ConcBodies[((t - 1) % Len(ConcBodies)) + 1]

\* a thread that has not received its request
Idle == [pc |-> "idle", data |-> << >>, k |-> 0, info |-> None,
         now1 |-> None, now2 |-> None, plan |-> None, filename |-> None,
         response |-> None]

ConcStart == [ord |-> 739980, tick |-> TicksPerDay - 1]

InitConc ==
    /\ clock = ConcStart
    /\ generator = StudyPlanGenerator
    /\ call = [op |-> "none"]
    /\ result = [kind |-> "none"]
    /\ app = AppNone
    /\ threads = [t \in Requests |-> Idle]
    /\ inits = InitsZero
    /\ heap = NoPlans
    /\ files = NoFiles

\* the system clock passes midnight
ConcTick ==
    /\ clock = ConcStart
    /\ clock' = PlusTicks(clock, 1)
    /\ UNCHANGED <<generator, call, result, app, threads, inits>>
    /\ UNCHANGED ioVars

\* a request arrives, is given to thread t, and before_request runs
\* initialize_models up to the test of quiz_gen (lines 31-32); threads are
\* numbered in the order their requests arrive
Receive(t) ==
    /\ threads[t].pc = "idle"
    /\ \A u \in Requests : u < t => threads[u].pc # "idle"
    /\ threads' = [threads EXCEPT ![t] =
                      IF app.quiz_gen # None
                      THEN [Idle EXCEPT !.pc = "handler", !.data = ConcBody(t)]
                      ELSE [Idle EXCEPT !.pc = "init", !.data = ConcBody(t), !.k = 1]]
    /\ UNCHANGED <<clock, generator, call, result, app, inits>>
    /\ UNCHANGED ioVars

\* the thread after the try block it is in: the next block, or the handler
NextBlock(th) ==
    IF th.k < Len(Singletons) THEN [th EXCEPT !.pc = "init", !.k = th.k + 1]
    ELSE [th EXCEPT !.pc = "handler", !.k = 0]

\* initialize_models, lines 36-73: the next try block up to the assignment
\* of its global; a block that trains goes on to the train call
InitStep(t) ==
    /\ threads[t].pc = "init"
    /\ LET m == Singletons[threads[t].k]
       IN  \E raised \in (IF "before" \in Outcomes(m) THEN BOOLEAN ELSE {FALSE}) :
            IF raised
            THEN /\ threads' = [threads EXCEPT ![t] = NextBlock(@)]
                 /\ UNCHANGED <<app, inits>>
            ELSE /\ app' = [app EXCEPT ![m] = Some(Construct(m))]
                 /\ inits' = [inits EXCEPT ![m] = @ + 1]
                 /\ threads' = [threads EXCEPT ![t] =
                                   IF m \in Trainable THEN [@ EXCEPT !.pc = "train"]
                                   ELSE NextBlock(@)]
    /\ UNCHANGED <<clock, generator, call, result>>
    /\ UNCHANGED ioVars

\* lines 38 and 46: train is called on the object the global holds now,
\* which another thread may have assigned since
InitTrain(t) ==
    /\ threads[t].pc = "train"
    /\ LET m == Singletons[threads[t].k]
       IN  \E raised \in (IF "after" \in Outcomes(m) THEN BOOLEAN ELSE {FALSE}) :
            /\ app' = IF raised THEN app
                      ELSE [app EXCEPT ![m] = Some(Train(m, app[m][1]))]
            /\ threads' = [threads EXCEPT ![t] = NextBlock(@)]
    /\ UNCHANGED <<clock, generator, call, result, inits>>
    /\ UNCHANGED ioVars

\* the lookup that also stores the resolved entry in the shared catalog
PlanLookup_CachesScenario(t) ==
    /\ threads[t].pc = "handler"
    /\ app.plan_generator # None
    /\ LET args == ParseArgs(threads[t].data)
           self == app.plan_generator[1]
           info == DictGet(self.scenarios, args.scenario, self.scenarios["exam_prep"])
       IN  /\ threads' = [threads EXCEPT ![t] = [@ EXCEPT !.pc = "schedule",
                                                          !.info = Some(info),
                                                          !.now1 = Some(clock)]]
           /\ app' = [app EXCEPT !.plan_generator =
                         Some([self EXCEPT !.scenarios = (args.scenario :> info) @@ @])]
    /\ UNCHANGED <<clock, generator, call, result, inits>>
    /\ UNCHANGED ioVars

\* generate_plan up to generate_study_plan line 48: the arguments are read,
\* the global plan_generator is fetched, the scenario is looked up in its
\* catalog and the clock is read for start_date
PlanLookup(t) ==
    /\ threads[t].pc = "handler"
    /\ app.plan_generator # None
    /\ LET args == ParseArgs(threads[t].data)
           self == app.plan_generator[1]
           info == DictGet(self.scenarios, args.scenario, self.scenarios["exam_prep"])
       IN  threads' = [threads EXCEPT ![t] = [@ EXCEPT !.pc = "schedule",
                                                       !.info = Some(info),
                                                       !.now1 = Some(clock)]]
    /\ UNCHANGED <<clock, generator, call, result, app, inits>>
    /\ UNCHANGED ioVars

\* the handler finds plan_generator still None: the except clause answers
PlanNoGenerator(t) ==
    /\ threads[t].pc = "handler"
    /\ app.plan_generator = None
    /\ threads' = [threads EXCEPT ![t] =
                      [@ EXCEPT !.pc = "done",
                                !.response = Some(RespondPlan(Raise("AttributeError")))]]
    /\ UNCHANGED <<clock, generator, call, result, app, inits>>
    /\ UNCHANGED ioVars

\* generate_study_plan lines 49-52 in thread th: the schedule is built from
\* a second reading of the clock, `now`, and the plan is put together
ScheduledPlan(th, now) ==
    LET args == ParseArgs(th.data)
        schedule == create_schedule(args.subject, args.hours, args.scenario,
                                    args.days, now)
    IN  IF schedule.kind = "raise" THEN schedule
        ELSE Return([subject |-> args.subject,
                     total_hours |-> args.hours,
                     total_days |-> args.days,
                     scenario |-> args.scenario,
                     intensity |-> th.info[1].intensity,
                     focus |-> th.info[1].focus,
                     start_date |-> Strftime(th.now1[1]),
                     schedule |-> schedule.val])

\* generate_study_plan line 49 to the end of the handler: the schedule is
\* built from a second reading of the clock and the plan is answered
PlanSchedule(t) ==
    /\ threads[t].pc = "schedule"
    /\ threads' = [threads EXCEPT ![t] =
                      [@ EXCEPT !.pc = "done", !.now2 = Some(clock),
                                !.response =
                                    Some(RespondPlan(ScheduledPlan(threads[t], clock)))]]
    /\ UNCHANGED <<clock, generator, call, result, app, inits>>
    /\ UNCHANGED ioVars

NextConc ==
    \/ ConcTick
    \/ \E t \in Requests :
          \/ Receive(t) \/ InitStep(t) \/ InitTrain(t) \/ PlanLookup(t)
          \/ PlanNoGenerator(t) \/ PlanSchedule(t)

ConcSpec == InitConc /\ [][NextConc]_vars

(***************************************************************************)
(* A caller that keeps the plans it was returned.  `heap` holds the plan   *)
(* objects (dicts and lists, which Python lets any holder modify) in the   *)
(* order they were returned; `files` maps the name of every file written   *)
(* to its rows.                                                            *)
(***************************************************************************)
\* generate_study_plan lines 41-52 and create_schedule lines 108-119 build
\* the plan from new dicts and lists: the heap gains one object
HeapAfterGenerate(h, outcome) ==
    IF outcome.kind = "return" THEN Append(h, outcome.val) ELSE h

\* export_to_csv that takes the slots out of each day as it walks them
ExportedPlan_ConsumesSlots(plan) ==
    [plan EXCEPT !.schedule =
        [d \in 1..Len(plan.schedule) |->
            [plan.schedule[d] EXCEPT !.time_slots = << >>]]]

\* the plan object when export_to_csv returns: lines 144-155 read the plan,
\* its day entries and their slots and assign to none of them
ExportedPlan(plan) == plan

HoldSubjects == {"Mathematics", "Art"}

HoldHours == {3, 10}

HoldDays == {None, Some(2)}

InitHold ==
    /\ clock = [ord |-> 739980, tick |-> 0]
    /\ generator = StudyPlanGenerator
    /\ call = [op |-> "none"]
    /\ result = [kind |-> "none"]
    /\ app = AppNone
    /\ threads = NoThreads
    /\ inits = InitsZero
    /\ heap = NoPlans
    /\ files = NoFiles

\* generate_study_plan called while earlier plans are still held
HoldGenerate ==
    /\ call.op = "none"
    /\ Len(heap) < MaxHeld
    /\ \E subject \in HoldSubjects, hours \in HoldHours, days \in HoldDays :
        LET r == generate_study_plan(generator, subject, hours, "exam_prep", days,
                                     clock, clock)
        IN  /\ call' = [op |-> "generate_study_plan", subject |-> subject,
                        hours |-> hours, scenario |-> "exam_prep", days |-> days,
                        now1 |-> clock, now2 |-> clock]
            /\ result' = r
            /\ heap' = HeapAfterGenerate(heap, r)
            /\ UNCHANGED <<clock, generator, app, threads, inits, files>>

\* export_to_csv called on one of the plans held
HoldExport ==
    /\ call.op = "none"
    /\ \E ref \in 1..Len(heap) :
        LET r == export_to_csv(heap[ref], None, clock)
        IN  /\ call' = [op |-> "export_to_csv", ref |-> ref, plan |-> heap[ref],
                        now |-> clock]
            /\ result' = r
            /\ heap' = [heap EXCEPT ![ref] = ExportedPlan(heap[ref])]
            /\ files' = WriteFile(files, r.val.filename, r.val.df)
            /\ UNCHANGED <<clock, generator, app, threads, inits>>

NextHold == HoldGenerate \/ HoldExport \/ Finish

HoldSpec == InitHold /\ [][NextHold]_vars

(***************************************************************************)
(* The application serving POST /api/download-plan on concurrent threads.  *)
(* A thread runs before_request, then download_plan, which reads the same  *)
(* arguments as generate_plan: it builds the plan (line 189), writes it to *)
(* a file of the working directory (line 190) and sends the file of that   *)
(* name (line 192); an exception is answered by the except clause as in    *)
(* generate_plan.  Other threads and the clock may run between the steps.  *)
(***************************************************************************)
\* request bodies: the defaults, more hours for the same subject, and a day
\* count the scheduler cannot divide by
DownBodies ==
    { << >>,
      Field("hours", Some(Float(10, 1))),
      Field("days", Some(Float(0, 1))) }

\* send_file(filename, as_attachment=True): the response carries what the
\* file of that name holds when it is sent
send_file(fs, filename) == Response(200, fs[filename])

\* a request arrives, is given to thread t, and before_request runs
\* initialize_models up to the test of quiz_gen (lines 31-32); threads are
\* numbered in the order their requests arrive
DownReceive(t) ==
    /\ threads[t].pc = "idle"
    /\ \A u \in Requests : u < t => threads[u].pc # "idle"
    /\ \E data \in DownBodies :
        threads' = [threads EXCEPT ![t] =
                       IF app.quiz_gen # None
                       THEN [Idle EXCEPT !.pc = "handler", !.data = data]
                       ELSE [Idle EXCEPT !.pc = "init", !.data = data, !.k = 1]]
    /\ UNCHANGED <<clock, generator, call, result, app, inits>>
    /\ UNCHANGED ioVars

\* generate_study_plan line 49 to its return: the schedule is built from a
\* second reading of the clock; ZeroDivisionError goes to the except clause
DownSchedule(t) ==
    /\ threads[t].pc = "schedule"
    /\ LET outcome == ScheduledPlan(threads[t], clock)
       IN  threads' = [threads EXCEPT ![t] =
                          IF outcome.kind = "raise"
                          THEN [@ EXCEPT !.pc = "done", !.now2 = Some(clock),
                                         !.response = Some(RespondPlan(outcome))]
                          ELSE [@ EXCEPT !.pc = "export", !.now2 = Some(clock),
                                         !.plan = Some(outcome.val)]]
    /\ UNCHANGED <<clock, generator, call, result, app, inits>>
    /\ UNCHANGED ioVars

\* export_to_csv(plan): the clock is read a third time for the file name
\* (line 142), the rows are built and the file is written (line 158)
DownExport(t) ==
    /\ threads[t].pc = "export"
    /\ LET out == export_to_csv(threads[t].plan[1], None, clock).val
       IN  /\ threads' = [threads EXCEPT ![t] =
                              [@ EXCEPT !.pc = "send", !.filename = Some(out.filename)]]
           /\ files' = WriteFile(files, out.filename, out.df)
    /\ UNCHANGED <<clock, generator, call, result, app, inits, heap>>

\* download_plan line 192: the file is sent
DownSend(t) ==
    /\ threads[t].pc = "send"
    /\ threads' = [threads EXCEPT ![t] =
                      [@ EXCEPT !.pc = "done",
                                !.response = Some(send_file(files, threads[t].filename[1]))]]
    /\ UNCHANGED <<clock, generator, call, result, app, inits>>
    /\ UNCHANGED ioVars

NextDown ==
    \/ ConcTick
    \/ \E t \in Requests :
          \/ DownReceive(t) \/ InitStep(t) \/ InitTrain(t) \/ PlanLookup(t)
          \/ PlanNoGenerator(t) \/ DownSchedule(t) \/ DownExport(t) \/ DownSend(t)

DownSpec == InitConc /\ [][NextDown]_vars

(***************************************************************************)
(* The plan generator called with totals and day counts whose per-day      *)
(* share has a fraction: besides the small values, 39 hours over 40 days,  *)
(* a share of 0.975 that is displayed as 1.0.                              *)
(***************************************************************************)
ShareHours == 0..MaxHours \cup {39}

ShareDays == 1..MaxDays \cup {40}

ShareGenerate ==
    /\ call.op = "none"
    /\ \E hours \in ShareHours, days \in ShareDays,
          scenario \in {"exam_prep", "homework"} :
        /\ call' = [op |-> "generate_study_plan", subject |-> "Science",
                    hours |-> hours, scenario |-> scenario, days |-> Some(days),
                    now1 |-> clock, now2 |-> clock]
        /\ result' = generate_study_plan(generator, "Science", hours, scenario,
                                         Some(days), clock, clock)
        /\ UNCHANGED <<clock, generator>>
        /\ UNCHANGED appVars
        /\ UNCHANGED ioVars

NextShare == ShareGenerate \/ Finish

ShareSpec == Init /\ [][NextShare]_vars

(***************************************************************************)
(* Calendar arithmetic used to state the properties: the day after a civil *)
(* date, counted on the calendar rather than on ordinals.                  *)
(***************************************************************************)
NextCivil(ymd) ==
    IF ymd[3] < DaysInMonth(ymd[1], ymd[2]) THEN << ymd[1], ymd[2], ymd[3] + 1 >>
    ELSE IF ymd[2] < 12 THEN << ymd[1], ymd[2] + 1, 1 >>
    ELSE << ymd[1] + 1, 1, 1 >>

RECURSIVE CivilAfter(_, _)
CivilAfter(ymd, k) == IF k = 0 THEN ymd ELSE CivilAfter(NextCivil(ymd), k - 1)

CivilLess(a, b) ==
    \/ a[1] < b[1]
    \/ a[1] = b[1] /\ a[2] < b[2]
    \/ a[1] = b[1] /\ a[2] = b[2] /\ a[3] < b[3]

IsPlanCall == call.op = "generate_study_plan"

IsSlotsCall == call.op = "create_time_slots"

\* the day count the call runs with
CallDays == DefaultDays(call.days)

(***************************************************************************)
(* C1: for days >= 1 and hours > 0 the schedule has exactly `days`         *)
(* entries numbered 1..days in order, and entry d carries the date d-1     *)
(* calendar days after the one anchor date read by create_schedule, so the *)
(* dates are strictly increasing.                                          *)
(***************************************************************************)
C1_ScheduleLengthAndDates ==
    (IsPlanCall /\ CallDays >= 1 /\ call.hours > 0) =>
        /\ result.kind = "return"
        /\ LET schedule == result.val.schedule
               anchor == CivilFromOrdinal(call.now2.ord)
           IN  /\ Len(schedule) = CallDays
               /\ \A d \in 1..CallDays :
                     /\ schedule[d].day = d
                     /\ schedule[d].date = FormatYmd(CivilAfter(anchor, d - 1))
                     /\ d < CallDays =>
                           /\ CivilLess(CivilAfter(anchor, d - 1), CivilAfter(anchor, d))
                           /\ schedule[d].date # schedule[d + 1].date

\* a 7-day schedule built while the clock advanced, running over the new year
C1_Witness ==
    /\ IsPlanCall /\ CallDays = 7 /\ call.hours > 0
    /\ clock # call.now1
    /\ result.kind = "return"
    /\ Len(result.val.schedule) = 7
    /\ result.val.schedule[1].date = "2026-12-31"
    /\ result.val.schedule[7].date = "2027-01-06"

(***************************************************************************)
(* C2: days <= 0 is rejected with an explicit invalid-day-count error and  *)
(* never yields a plan.                                                    *)
(***************************************************************************)
C2_InvalidDayCountRejected ==
    (IsPlanCall /\ CallDays <= 0) =>
        /\ result.kind = "raise"
        /\ result.exc = "InvalidDayCount"

(***************************************************************************)
(* C3: hours <= 0 with days >= 1 is rejected with an InvalidHours error    *)
(* and never yields a plan.                                                *)
(***************************************************************************)
C3_InvalidHoursRejected ==
    (IsPlanCall /\ call.hours <= 0 /\ CallDays >= 1) =>
        /\ result.kind = "raise"
        /\ result.exc = "InvalidHours"

(***************************************************************************)
(* C4: in every returned plan entry d carries the date d-1 calendar days   *)
(* after the plan's start_date; day 1 carries start_date itself.           *)
(***************************************************************************)
C4_DatesFollowStartDate ==
    (IsPlanCall /\ result.kind = "return") =>
        LET plan == result.val
            start == CivilFromOrdinal(call.now1.ord)
        IN  /\ plan.start_date = FormatYmd(start)
            /\ \A d \in 1..Len(plan.schedule) :
                  plan.schedule[d].date = FormatYmd(CivilAfter(start, d - 1))

(***************************************************************************)
(* C5: create_time_slots returns exactly floor(h) slots for every h >= 0,  *)
(* and the empty sequence for 0 <= h < 1.                                  *)
(***************************************************************************)
C5_SlotCountIsFloor ==
    (IsSlotsCall /\ call.hours.num >= 0) =>
        /\ result.kind = "return"
        /\ Len(result.val) * call.hours.den <= call.hours.num
        /\ call.hours.num < (Len(result.val) + 1) * call.hours.den
        /\ call.hours.num < call.hours.den => result.val = << >>

\* partition(3.7) has returned its three slots
C5_Witness ==
    /\ IsSlotsCall /\ call.hours = [num |-> 37, den |-> 10]
    /\ result.kind = "return"
    /\ Len(result.val) = 3
    /\ result.val[3].slot = "11:00 - 12:00"

(***************************************************************************)
(* C6: the i-th slot is labelled "{8+i}:00 - {9+i}:00", lasts "1 hour" and *)
(* is "Study session i"; the first slot starts at 9, each slot starts      *)
(* where the previous one ends, and hours are not wrapped at 24: the 16th  *)
(* slot is "24:00 - 25:00".                                                *)
(***************************************************************************)
SlotsWellFormed(slots) ==
    /\ \A i \in 1..Len(slots) :
          /\ slots[i].slot = ToString(8 + i) \o ":00 - " \o ToString(9 + i) \o ":00"
          /\ slots[i].duration = "1 hour"
          /\ slots[i].activity = "Study session " \o ToString(i)
    /\ Len(slots) >= 1 => slots[1].slot = "9:00 - 10:00"
    /\ Len(slots) >= 2 => slots[2].slot = "10:00 - 11:00"
    /\ Len(slots) >= 16 => slots[16].slot = "24:00 - 25:00"

C6_SlotLabels ==
    /\ (IsSlotsCall /\ result.kind = "return") => SlotsWellFormed(result.val)
    /\ (IsPlanCall /\ result.kind = "return") =>
          \A d \in 1..Len(result.val.schedule) :
              SlotsWellFormed(result.val.schedule[d].time_slots)

\* a 16-slot day
C6_Witness ==
    /\ IsSlotsCall /\ result.kind = "return"
    /\ Len(result.val) = 16
    /\ result.val[16] = [slot |-> "24:00 - 25:00", duration |-> "1 hour",
                         activity |-> "Study session 16"]

(***************************************************************************)
(* C7: the activity of day d is entry (d-1) mod 5 of the subject's 5-entry *)
(* activity list, so day d+5 repeats day d and the list never runs out.    *)
(***************************************************************************)
\* the list the schedule of `subject` is drawn from
SubjectActivities(subject) ==
    IF subject \in DOMAIN activities THEN activities[subject]
    ELSE activities["Mathematics"]

C7_ActivitiesCycle ==
    (IsPlanCall /\ result.kind = "return") =>
        LET schedule == result.val.schedule
            list == SubjectActivities(call.subject)
        IN  /\ Len(list) = 5
            /\ \A d \in 1..Len(schedule) :
                  /\ schedule[d].activities = list[((d - 1) % 5) + 1]
                  /\ d + 5 <= Len(schedule) =>
                        schedule[d + 5].activities = schedule[d].activities

\* a 7-day History plan: day 6 repeats day 1 and day 7 repeats day 2
C7_Witness ==
    /\ IsPlanCall /\ call.subject = "History" /\ result.kind = "return"
    /\ Len(result.val.schedule) = 7
    /\ result.val.schedule[6].activities = "Read historical context"
    /\ result.val.schedule[1].activities = "Read historical context"
    /\ result.val.schedule[7].activities = "Create timelines"
    /\ result.val.schedule[2].activities = "Create timelines"

(***************************************************************************)
(* C8: with any scenario key the call succeeds (days >= 1, hours > 0); the *)
(* plan's intensity and focus are those of the catalog entry of a catalog  *)
(* key and those of exam_prep (high, comprehensive review and practice)    *)
(* for every other key.                                                    *)
(***************************************************************************)
C8_ScenarioFallback ==
    IsPlanCall =>
        /\ (CallDays >= 1 /\ call.hours > 0) => result.kind = "return"
        /\ result.kind = "return" =>
              /\ result.val.scenario = call.scenario
              /\ call.scenario \in {"exam_prep", "homework", "project"} =>
                    /\ result.val.intensity = generator.scenarios[call.scenario].intensity
                    /\ result.val.focus = generator.scenarios[call.scenario].focus
              /\ call.scenario \notin {"homework", "project"} =>
                    /\ result.val.intensity = "high"
                    /\ result.val.focus = "comprehensive review and practice"

\* a plan for a key outside the catalog
C8_Witness ==
    /\ IsPlanCall /\ call.scenario = "midterm_cram"
    /\ CallDays >= 1 /\ call.hours > 0
    /\ result.kind = "return"
    /\ result.val.intensity = "high"
    /\ result.val.focus = "comprehensive review and practice"

(***************************************************************************)
(* C9: a subject outside the catalog gets, day for day, the activities of  *)
(* a Mathematics plan of the same length, and no error.                    *)
(***************************************************************************)
C9_SubjectFallback ==
    (IsPlanCall /\ call.subject \notin
        {"Mathematics", "Science", "History", "Literature", "Computer Science"}) =>
        LET maths == generate_study_plan(generator, "Mathematics", call.hours,
                                         call.scenario, call.days, call.now1, call.now2)
        IN  /\ (CallDays >= 1 /\ call.hours > 0) => result.kind = "return"
            /\ result.kind = "return" =>
                  /\ maths.kind = "return"
                  /\ Len(result.val.schedule) = Len(maths.val.schedule)
                  /\ \A d \in 1..Len(result.val.schedule) :
                        /\ result.val.schedule[d].activities = maths.val.schedule[d].activities
                        /\ result.val.schedule[d].activities =
                               activities["Mathematics"][((d - 1) % 5) + 1]

\* a 6-day plan for the subject "Art"
C9_Witness ==
    /\ IsPlanCall /\ call.subject = "Art" /\ result.kind = "return"
    /\ Len(result.val.schedule) = 6
    /\ result.val.schedule[2].activities = "Solve practice problems"
    /\ result.val.schedule[6].activities = "Review fundamental concepts"

(***************************************************************************)
(* C10: without a days argument the plan has total_days = 5 and 5 entries  *)
(* and is the plan of the same call with days = 5.                         *)
(***************************************************************************)
C10_DaysDefaultFive ==
    (IsPlanCall /\ call.days = None) =>
        /\ result.kind = "return"
        /\ result.val.total_days = 5
        /\ Len(result.val.schedule) = 5
        /\ \A d \in 1..5 : result.val.schedule[d].day = d
        /\ result = generate_study_plan(generator, call.subject, call.hours,
                                        call.scenario, Some(5), call.now1, call.now2)

\* the call of verify_setup.py: generate_study_plan('Mathematics', hours=5,
\* scenario='exam_prep') has returned
C10_Witness ==
    /\ IsPlanCall /\ call.days = None
    /\ call.subject = "Mathematics" /\ call.hours = 5 /\ call.scenario = "exam_prep"
    /\ result.kind = "return"
    /\ result.val.total_days = 5
    /\ Len(result.val.schedule) = 5

(***************************************************************************)
(* C11: the export has exactly one row per (day, slot) pair, ordered by    *)
(* day then slot; each row carries the day's date, "Day N" and activity,   *)
(* the slot's label and duration and the plan's subject and scenario; a    *)
(* day without slots contributes no row and no error; a plan of `days`     *)
(* days and `hours` hours has days x floor(hours/days) rows.               *)
(***************************************************************************)
IsExportCall == call.op = "export_to_csv"

\* the number of rows that precede the rows of day d
RECURSIVE RowsBefore(_, _)
RowsBefore(schedule, d) ==
    IF d = 1 THEN 0
    ELSE RowsBefore(schedule, d - 1) + Len(schedule[d - 1].time_slots)

C11_ExportRows ==
    IsExportCall =>
        /\ result.kind = "return"
        /\ LET plan == call.plan
               rows == result.val.df
               n == Len(plan.schedule)
           IN  /\ Len(rows) = RowsBefore(plan.schedule, n + 1)
               /\ \A d \in 1..n :
                     \A j \in 1..Len(plan.schedule[d].time_slots) :
                         rows[RowsBefore(plan.schedule, d) + j] =
                             [Date |-> plan.schedule[d].date,
                              Day |-> "Day " \o ToString(d),
                              Time |-> plan.schedule[d].time_slots[j].slot,
                              Activity |-> plan.schedule[d].activities,
                              Duration |-> "1 hour",
                              Subject |-> call.args.subject,
                              Scenario |-> call.args.scenario]
               /\ (plan.total_days >= 1 /\ plan.total_hours >= 0) =>
                     Len(rows) = plan.total_days * (plan.total_hours \div plan.total_days)

\* the export of the plan for hours = 10, days = 5: 10 rows
C11_Witness ==
    /\ IsExportCall /\ result.kind = "return"
    /\ call.args.hours = 10 /\ call.args.days = Some(5)
    /\ Len(result.val.df) = 10
    /\ result.val.df[3].Day = "Day 2"
    /\ result.val.df[3].Time = "9:00 - 10:00"
    /\ result.val.df[10].Day = "Day 5"
    /\ result.val.df[10].Time = "10:00 - 11:00"

(***************************************************************************)
(* C12: for days >= 1 and hours > 0 every day displays hours/days rounded  *)
(* to one decimal (the nearest tenth), and the displayed hours of all days *)
(* add up to the requested hours within days x 0.05.                       *)
(***************************************************************************)
Abs(x) == IF x < 0 THEN -x ELSE x

\* the sum of the displayed hours of entries 1..d, in tenths
RECURSIVE DisplayedTenths(_, _)
DisplayedTenths(schedule, d) ==
    IF d = 0 THEN 0 ELSE DisplayedTenths(schedule, d - 1) + schedule[d].hours.num

C12_DisplayedHoursSum ==
    (IsPlanCall /\ CallDays >= 1 /\ call.hours > 0 /\ result.kind = "return") =>
        LET schedule == result.val.schedule
        IN  /\ \A d \in 1..Len(schedule) :
                  /\ schedule[d].hours.den = 10
                  /\ 2 * Abs(schedule[d].hours.num * CallDays - 10 * call.hours) <= CallDays
            /\ 20 * Abs(DisplayedTenths(schedule, Len(schedule)) - 10 * call.hours)
                   <= 10 * CallDays

\* 1 hour over 4 days: 0.25 is displayed as 0.2 each day, 0.8 in all, which
\* is 0.2 = 4 x 0.05 short of the total
C12_Witness ==
    /\ IsPlanCall /\ call.hours = 1 /\ call.days = Some(4)
    /\ result.kind = "return"
    /\ Len(result.val.schedule) = 4
    /\ \A d \in 1..4 : result.val.schedule[d].hours = [num |-> 2, den |-> 10]


(***************************************************************************)
(* C15: for every subject, every num_questions >= 1 and every difficulty   *)
(* setting, generate_quiz returns exactly num_questions entries, each a    *)
(* template of the subject's list (the Mathematics list for an unknown     *)
(* subject); without a filter the first min(num_questions, 8) entries are  *)
(* pairwise distinct templates and the rest are padding.                   *)
(***************************************************************************)
IsQuizCall == call.op = "generate_quiz"

\* the texts of the templates generate_quiz draws from
QuizQuestions(subject) ==
    LET list == IF subject \in DOMAIN quiz_templates THEN quiz_templates[subject]
                ELSE quiz_templates["Mathematics"]
    IN  {QuestionText(list[i]) : i \in 1..Len(list)}

C15_QuizLength ==
    (IsQuizCall /\ call.num_questions >= 1) =>
        /\ result.kind = "return"
        /\ LET quiz == result.val
               drawn == IF call.num_questions < 8 THEN call.num_questions ELSE 8
           IN  /\ Len(quiz) = call.num_questions
               /\ \A i \in 1..Len(quiz) :
                     quiz[i].question \in QuizQuestions(call.subject)
               /\ call.difficulty = "Mixed" =>
                     \A i, j \in 1..drawn :
                        i # j => quiz[i].question # quiz[j].question

\* a quiz of 10 questions from a list of 8: two entries are padding
C15_Witness ==
    /\ IsQuizCall /\ call.num_questions = 10 /\ call.difficulty = "Mixed"
    /\ result.kind = "return" /\ Len(result.val) = 10
    /\ \E i \in 1..8 : result.val[9].question = result.val[i].question

(***************************************************************************)
(* C16: for every non-empty text, summarize with the default compression   *)
(* ratio 0.3 returns, and returns a non-empty string.                      *)
(***************************************************************************)
IsSummarizeCall == call.op = "summarize"

C16_SummarizeNeverRaises ==
    (IsSummarizeCall /\ call.text # << >> /\ call.compression_ratio = Float(3, 10)) =>
        /\ result.kind = "return"
        /\ result.val # ""

(***************************************************************************)
(* C17: for every subject and every num_tips >= 0, generate_tips returns   *)
(* the first min(num_tips, 5) tips of the subject's list (the Mathematics  *)
(* list for an unknown subject) in catalog order, hence exactly num_tips   *)
(* tips when num_tips <= 5.                                                *)
(***************************************************************************)
IsTipsCall == call.op = "generate_tips"

C17_FirstTips ==
    (IsTipsCall /\ call.num_tips >= 0) =>
        /\ result.kind = "return"
        /\ LET list == IF call.subject \in DOMAIN tips_templates
                       THEN tips_templates[call.subject]
                       ELSE tips_templates["Mathematics"]
               count == IF call.num_tips < 5 THEN call.num_tips ELSE 5
           IN  /\ Len(list) = 5
               /\ Len(result.val) = count
               /\ \A i \in 1..count : result.val[i] = list[i]
               /\ call.num_tips <= 5 => Len(result.val) = call.num_tips

\* seven tips asked for an unknown subject: the five Mathematics tips
C17_Witness ==
    /\ IsTipsCall /\ call.subject = "Art" /\ call.num_tips = 7
    /\ result.kind = "return" /\ Len(result.val) = 5
    /\ result.val[1] = tips_templates["Mathematics"][1]
    /\ result.val[5] = tips_templates["Mathematics"][5]

(***************************************************************************)
(* C19: with a difficulty filter 'Easy' or 'Medium', every question of the *)
(* returned quiz carries that difficulty label.                            *)
(***************************************************************************)
C19_DifficultyFilterRespected ==
    (IsQuizCall /\ call.difficulty \in {"Easy", "Medium"} /\ result.kind = "return") =>
        \A i \in 1..Len(result.val) : result.val[i].difficulty = call.difficulty

(***************************************************************************)
(* C20: when the text has more sentences than the target count, the        *)
(* summary is made of sentences of the text in their original order and    *)
(* contains both the first and the last of them.                           *)
(***************************************************************************)
\* the sentences of a text: its words, one sentence each
WordsOf(text) == SelectSeq(text, LAMBDA tok : tok # "." /\ tok # " ")

\* the sentences at the places in `kept`, in order, joined as a summary
RECURSIVE SummaryOf(_, _, _)
SummaryOf(words, kept, i) ==
    IF i > Len(words) THEN ""
    ELSE IF i \in kept
         THEN words[i] \o (IF \E j \in kept : j > i THEN ". " ELSE ".")
              \o SummaryOf(words, kept, i + 1)
         ELSE SummaryOf(words, kept, i + 1)

C20_FirstAndLastKept ==
    LET words == WordsOf(call.text)
        n == Len(words)
    IN  (/\ IsSummarizeCall
         /\ n > Max(1, (n * call.compression_ratio.num) \div call.compression_ratio.den)
         /\ result.kind = "return") =>
            \E kept \in SUBSET (1..n) :
                /\ 1 \in kept /\ n \in kept
                /\ result.val = SummaryOf(words, kept, 1)


(***************************************************************************)
(* C14 as stated: for every subset of the fields omitted from the body,    *)
(* the plan the endpoint builds carries the defaults subject Mathematics,  *)
(* hours 5, scenario exam_prep, days 5 for the omitted fields and the      *)
(* supplied values, as given, for the others.                              *)
(***************************************************************************)
IsPlanRequest == call.op = "generate_plan"

\* the value of a field of the body, or its default
Given(name, default) == IF name \in DOMAIN call.data THEN call.data[name] ELSE default

\* the integer n is the number x
SameNumber(n, x) == n * x.den = x.num

C14_DefaultsAndGivenFields ==
    (IsPlanRequest /\ result.val.status = 200) =>
        LET plan == result.val.json
        IN  /\ plan.subject = Given("subject", "Mathematics")
            /\ SameNumber(plan.total_hours, Given("hours", Float(5, 1)))
            /\ plan.scenario = Given("scenario", "exam_prep")
            /\ SameNumber(plan.total_days, Given("days", Float(5, 1)))

(***************************************************************************)
(* C14, amended: the omitted fields take the defaults Mathematics, 5,      *)
(* exam_prep, 5; a supplied subject or scenario is used as given, and a    *)
(* supplied hours or days number is cut to its integer part (toward zero)  *)
(* before the plan is built.  The response is the plan generate_study_plan *)
(* returns for these arguments, or status 500 when it raises (days 0).     *)
(***************************************************************************)
\* the integer part of a number, toward zero
Truncated(x) == IF x.num >= 0 THEN x.num \div x.den ELSE -((-x.num) \div x.den)

C14_DefaultsAndIntegerFields ==
    IsPlanRequest =>
        LET subject == Given("subject", "Mathematics")
            hours == Truncated(Given("hours", Float(5, 1)))
            scenario == Given("scenario", "exam_prep")
            days == Truncated(Given("days", Float(5, 1)))
            built == generate_study_plan(StudyPlanGenerator, subject, hours,
                                         scenario, Some(days), call.now1, call.now2)
        IN  /\ result.val.status = 200 <=> days # 0
            /\ result.val.status = 200 =>
                  /\ result.val.json = built.val
                  /\ result.val.json.subject = subject
                  /\ result.val.json.total_hours = hours
                  /\ result.val.json.scenario = scenario
                  /\ result.val.json.total_days = days
            /\ result.val.status # 200 =>
                  /\ result.val.status = 500
                  /\ built.kind = "raise"

\* only hours is supplied, as 2.5: the plan is built for Mathematics,
\* 2 hours, exam_prep, 5 days
C14_Witness ==
    /\ IsPlanRequest /\ DOMAIN call.data = {"hours"}
    /\ call.data["hours"] = Float(5, 2)
    /\ result.val.status = 200
    /\ result.val.json.subject = "Mathematics"
    /\ result.val.json.total_hours = 2
    /\ result.val.json.scenario = "exam_prep"
    /\ result.val.json.total_days = 5
    /\ Len(result.val.json.schedule) = 5


(***************************************************************************)
(* C13: under every interleaving of generate_study_plan calls on the       *)
(* shared generator, the scenario catalog is never modified, every         *)
(* scenario entry a call has resolved is the one the untouched catalog     *)
(* gives, and every finished call answers exactly the plan the call would  *)
(* return run alone with its arguments and its two clock readings.         *)
(***************************************************************************)
\* the scenario entry the thread resolved is the one of the untouched catalog
ResolvedFromCatalog(th) ==
    LET args == ParseArgs(th.data)
    IN  th.info # None =>
            th.info[1] = IF args.scenario \in DOMAIN StudyPlanGenerator.scenarios
                         THEN StudyPlanGenerator.scenarios[args.scenario]
                         ELSE StudyPlanGenerator.scenarios["exam_prep"]

\* the answer of a finished call is the one of the call run alone
AnswersAsAlone(th) ==
    LET args == ParseArgs(th.data)
    IN  (th.pc = "done" /\ th.now2 # None) =>
            th.response[1] =
               RespondPlan(generate_study_plan(StudyPlanGenerator, args.subject,
                                               args.hours, args.scenario,
                                               Some(args.days), th.now1[1],
                                               th.now2[1]))

\* every step keeps the catalog; a thread it moves has resolved its entry
\* from the catalog and, when it finishes, answers as alone; a finished
\* thread is left as it is
PlansIndependentStep ==
    /\ app'.plan_generator \in {None, Some(StudyPlanGenerator)}
    /\ \A t \in DOMAIN threads :
          IF threads[t].pc = "done" THEN threads'[t] = threads[t]
          ELSE threads'[t] # threads[t] =>
                  ResolvedFromCatalog(threads'[t]) /\ AnswersAsAlone(threads'[t])

C13_ConcurrentPlansIndependent == [][PlansIndependentStep]_vars

\* two calls overlap: both read the start date before midnight, the first
\* has answered its plan after midnight while the second is still building
C13_Witness ==
    /\ threads[1].pc = "done" /\ threads[1].response[1].status = 200
    /\ threads[2].pc = "schedule"
    /\ threads[1].data # threads[2].data
    /\ threads[1].now1 = threads[2].now1
    /\ threads[1].now2 # threads[1].now1

(***************************************************************************)
(* C18: across every sequence and interleaving of requests, each model     *)
(* singleton is constructed at most once.                                  *)
(***************************************************************************)
C18_InitializedAtMostOnce ==
    \A m \in DOMAIN inits : inits[m] <= 1


(***************************************************************************)
(* C21: a plan is never modified after it was returned: no step, neither   *)
(* an export of a held plan nor the generation of another plan, changes    *)
(* any plan object the caller already holds, in any of its fields, day     *)
(* entries or time slots.                                                  *)
(***************************************************************************)
PlansKept ==
    \A i \in 1..Len(heap) : Len(heap') >= i /\ heap'[i] = heap[i]

C21_PlanNeverMutated == [][PlansKept]_vars

\* a first plan was exported, and a different second plan was generated
\* afterwards: the file still shows the rows of the first plan as it is now
C21_Witness ==
    /\ call.op = "generate_study_plan" /\ result.kind = "return"
    /\ Len(heap) = 2 /\ heap[2] = result.val /\ heap[1] # heap[2]
    /\ heap[1].subject = heap[2].subject
    /\ DOMAIN files = {DefaultFilename(heap[1], clock)}
    /\ files[DefaultFilename(heap[1], clock)] = export_to_csv(heap[1], None, clock).val.df
    /\ Len(files[DefaultFilename(heap[1], clock)]) = 10


(***************************************************************************)
(* C22: every download-plan response that carries a file carries the rows  *)
(* of the plan generated for that same request, whatever other download    *)
(* requests are handled at the same time or within the same clock second.  *)
(***************************************************************************)
C22_DownloadCarriesOwnRows ==
    \A t \in Requests :
        (threads[t].pc = "done" /\ threads[t].plan # None) =>
            threads[t].response[1] =
                Response(200, export_to_csv(threads[t].plan[1], None, clock).val.df)


(***************************************************************************)
(* C23: for hours >= 0 and days >= 1 every day of the plan has the same    *)
(* number of slots, floor(hours/days), taken from the unrounded share of   *)
(* the day; it never exceeds the hours displayed for the day; the slots of *)
(* all days together never exceed the requested hours and fall short of    *)
(* them by less than `days` hours, so hours < days gives no slot at all.   *)
(***************************************************************************)
\* the number of slots of entries 1..d
RECURSIVE TotalSlots(_, _)
TotalSlots(schedule, d) ==
    IF d = 0 THEN 0 ELSE TotalSlots(schedule, d - 1) + Len(schedule[d].time_slots)

C23_SlotsFromUnroundedShare ==
    (IsPlanCall /\ call.hours >= 0 /\ CallDays >= 1) =>
        /\ result.kind = "return"
        /\ LET schedule == result.val.schedule
               total == TotalSlots(schedule, Len(schedule))
           IN  /\ Len(schedule) = CallDays
               /\ \A d \in 1..Len(schedule) :
                     /\ Len(schedule[d].time_slots) = call.hours \div CallDays
                     /\ Len(schedule[d].time_slots) * schedule[d].hours.den
                            <= schedule[d].hours.num
               /\ total = CallDays * (call.hours \div CallDays)
               /\ total <= call.hours
               /\ call.hours - total < CallDays
               /\ call.hours < CallDays => total = 0

\* 39 hours over 40 days: every day displays 1.0 hours and has no slot
C23_Witness ==
    /\ IsPlanCall /\ call.hours = 39 /\ call.days = Some(40)
    /\ result.kind = "return"
    /\ Len(result.val.schedule) = 40
    /\ \A d \in 1..40 :
          /\ result.val.schedule[d].hours = [num |-> 10, den |-> 10]
          /\ result.val.schedule[d].time_slots = << >>

====
